---- MODULE Spec2Model ----
(***************************************************************************)
(* Model of draft/_ust.py: the U.S. Treasury yield-curve ingestion script. *)
(*                                                                         *)
(* The script is single-threaded and synchronous, so every end-use         *)
(* function (get_datapoints, get_df, update_dfs, get_dfs_from_scratch) is  *)
(* one atomic action.  The state is what outlives a call: the xml/ cache   *)
(* directory, the ust.csv file, the upstream web service and the calendar  *)
(* year, plus a record of what the last call did (its events, its result). *)
(*                                                                         *)
(* Abstractions:                                                           *)
(*   - a year is a small integer, a calendar day a pair <<year, day>>;     *)
(*   - an XML document is the sequence of its top-level nodes; a node is   *)
(*     a content entry, a properties entry or a run of plain text;         *)
(*   - a timestamp string "%Y-%m-%dT%H:%M:%S" is the triple                *)
(*     <<year, day, time>>; any other sequence is a string that strptime   *)
(*     rejects;                                                            *)
(*   - soup.find(key) is a sequence of length 0 (None) or 1 (the element,  *)
(*     holding its text);                                                  *)
(*   - a float is an integer number of hundredths;                         *)
(*   - ust.csv is the table it holds plus whether pandas can read it.      *)
(***************************************************************************)
EXTENDS Integers, Sequences, FiniteSets, TLC

VARIABLES
    today,    \* datetime.today().year
    web,      \* year -> body the upstream service answers a GET with
    xml,      \* year -> content of xml/<year>.xml, or NoFile
    csv,      \* ust.csv: [readable, rows]
    op,       \* the last call: [name, year, from_web]
    status,   \* how the last call ended: "ok" or the exception raised
    events,   \* what the last call did, in order: GET/SAVE/READ/PARSE per year
    content,  \* xml_content handed to the parser by the last get_datapoints
    df,       \* table returned by the last get_df/update_dfs/get_dfs_from_scratch
    pre       \* when the last call began: [xml, csv, updated]

vars == <<today, web, xml, csv, op, status, events, content, df, pre>>

----------------------------------------------------------------------------
(* Bounds of the model *)

MaxYear == 2

MaxDay == 2

MaxEntries == 2

MaxRows == 2

\* The first year of the feed (1990 in the script).
StartYear == 1

Years == StartYear..MaxYear

Days == 1..MaxDay

----------------------------------------------------------------------------
(* Module constants of _ust.py *)

BC_KEYS ==
    <<"BC_1MONTH", "BC_3MONTH", "BC_6MONTH", "BC_1YEAR", "BC_2YEAR", "BC_3YEAR",
      "BC_5YEAR", "BC_7YEAR", "BC_10YEAR", "BC_20YEAR", "BC_30YEAR",
      "BC_30YEARDISPLAY">>

BcKeySet == {BC_KEYS[i] : i \in DOMAIN BC_KEYS}

DF_COLUMNS == <<"date">> \o BC_KEYS

----------------------------------------------------------------------------
(* Parsing XML string to dict *)

\* float(s): the strings float() accepts, with their value in hundredths.
FloatValue ==
    [s \in {"0.96", "1.5", "2.0"} |->
        CASE s = "0.96" -> 96
          [] s = "1.5" -> 150
          [] s = "2.0" -> 200]

\* F applied to the value of v, v being evaluated once (a local variable).
Bind(v, F(_)) == CHOOSE x \in {F(u) : u \in {v}} : TRUE

\* Outcome of a call: either a value or the exception raised.
Ok(v) == [exc |-> "ok", val |-> v]

Raise(e) == [exc |-> e, val |-> <<>>]

\* get_date: strptime with "%Y-%m-%dT%H:%M:%S", strftime with "%Y-%m-%d".
get_date(string) ==
    IF Len(string) = 3
    THEN Ok(<<string[1], string[2]>>)
    ELSE Raise("ValueError")

\* as_float: float(s), and 0 on any exception.
as_float(s) ==
    IF s \in DOMAIN FloatValue THEN FloatValue[s] ELSE 0

\* element.text, where element is the result of find(): None has no .text.
Text(found) ==
    IF Len(found) = 0 THEN Raise("AttributeError") ELSE Ok(found[1])

\* soup.find_all("content"): the content entries, in document order.
FindAllContent(xml_content) ==
    SelectSeq(xml_content, LAMBDA node : node.tag = "content")

\* The body of the for loop of yield_datapoints_from_string: the dict of one
\* datum.  The twelve fields are read first, in BC_KEYS order, then NEW_DATE.
Datapoint(datum) ==
    IF \E i \in DOMAIN BC_KEYS : Text(datum.bc[BC_KEYS[i]]).exc # "ok"
    THEN Raise("AttributeError")
    ELSE Bind(Text(datum.NEW_DATE), LAMBDA dateText :
        IF dateText.exc # "ok" THEN Raise("AttributeError")
        ELSE Bind(get_date(dateText.val), LAMBDA date :
            IF date.exc # "ok" THEN Raise("ValueError")
            ELSE Ok([date |-> date.val,
                     bc |-> [k \in BcKeySet |->
                                as_float(Text(datum.bc[k]).val)]])))

\* yield_datapoints_from_string, consumed to the end: the list of dicts, or
\* the exception raised while building the first datum that fails.
yield_datapoints_from_string(xml_content) ==
    Bind(FindAllContent(xml_content), LAMBDA data :
        Bind([i \in DOMAIN data |-> Datapoint(data[i])], LAMBDA points :
            IF \A i \in DOMAIN data : points[i].exc = "ok"
            THEN Ok([i \in DOMAIN data |-> points[i].val])
            ELSE Raise(points[CHOOSE i \in DOMAIN data :
                                /\ points[i].exc # "ok"
                                /\ \A j \in 1..(i - 1) : points[j].exc = "ok"].exc)))

----------------------------------------------------------------------------
(* Local XML file cache *)

NoFile == [exists |-> FALSE, text |-> <<>>]

\* os.path.exists(filepath(year))
FileExists(files, year) == files[year].exists

\* read_local_xml: the file content; open() raises when there is no file.
read_local_xml(files, year) ==
    IF files[year].exists
    THEN Ok(files[year].text)
    ELSE Raise("FileNotFoundError")

\* save_local_xml: open(path, "w") and write, overwriting any prior content.
save_local_xml(files, year, text) ==
    [files EXCEPT ![year] = [exists |-> TRUE, text |-> text]]

----------------------------------------------------------------------------
(* Web request *)

ErrorMarker == "Error"

\* get_web_xml: requests.get(url).text
get_web_xml(year) == web[year]

\* "Error" in content: the marker occurs in some run of text of the body.
HasErrorMarker(body) ==
    \E i \in DOMAIN body : body[i].tag = "text" /\ body[i].text = ErrorMarker

\* The body returned without looking for the marker.
get_xml_content_unchecked(year) == Ok(get_web_xml(year))

\* get_xml_content_from_web: the body, or ValueError when it holds the marker.
get_xml_content_from_web(year) ==
    LET body == get_web_xml(year)
    IN  IF HasErrorMarker(body) THEN Raise("ValueError") ELSE Ok(body)

----------------------------------------------------------------------------
(* End-use functions.  Each takes the cache directory and the event log as *)
(* they are when it is called and returns them as it leaves them, with the *)
(* exception raised ("ok" for none) and the value returned.                *)

Event(kind, year) == [ev |-> kind, year |-> year]

Result(exc, files, log, val) ==
    [exc |-> exc, files |-> files, log |-> log, val |-> val]

\* The condition without its test of the current year.
NeedsWeb_IgnoresToday(year, from_web, files) ==
    from_web \/ ~FileExists(files, year)

\* The condition of the if of get_datapoints.
NeedsWeb(year, from_web, files) ==
    from_web \/ year = today \/ ~FileExists(files, year)

\* get_datapoints up to its return: the xml_content the returned generator
\* will parse.  The generator is lazy: nothing is parsed here.
get_datapoints(year, from_web, files, log) ==
    IF NeedsWeb(year, from_web, files)
    THEN Bind(get_xml_content_from_web(year), LAMBDA r :
            IF r.exc # "ok"
            THEN Result(r.exc, files, Append(log, Event("GET", year)), <<>>)
            ELSE Result("ok", save_local_xml(files, year, r.val),
                        log \o <<Event("GET", year), Event("SAVE", year)>>,
                        r.val))
    ELSE Bind(read_local_xml(files, year), LAMBDA r :
            Result(r.exc, files, Append(log, Event("READ", year)), r.val))

\* pd.to_datetime of a "%Y-%m-%d" string.
to_datetime(date) == [year |-> date[1], day |-> date[2]]

\* A frame that has its columns even when built from no record.
DataFrame_AlwaysHasColumns(points) ==
    Ok([i \in DOMAIN points |->
            [date |-> to_datetime(points[i].date), bc |-> points[i].bc]])

\* pd.DataFrame(gen)[DF_COLUMNS], then the date column parsed and made the
\* index.  A frame built from no record has no column: selecting DF_COLUMNS
\* raises KeyError.
DataFrame(points) ==
    IF Len(points) = 0
    THEN Raise("KeyError")
    ELSE Ok([i \in DOMAIN points |->
                [date |-> to_datetime(points[i].date), bc |-> points[i].bc]])

\* get_df: the generator of get_datapoints is consumed by pd.DataFrame.
get_df(year, files, log) ==
    Bind(get_datapoints(year, FALSE, files, log), LAMBDA g :
        IF g.exc # "ok" THEN g
        ELSE Bind(yield_datapoints_from_string(g.val), LAMBDA p :
            IF p.exc # "ok"
            THEN Result(p.exc, g.files, Append(g.log, Event("PARSE", year)), <<>>)
            ELSE Bind(DataFrame(p.val), LAMBDA frame :
                Result(frame.exc, g.files, Append(g.log, Event("PARSE", year)),
                       frame.val))))

\* The list comprehension [get_df(year) for year in years], concatenated as
\* it goes; the first exception ends it.
RECURSIVE get_df_each(_, _, _, _)
get_df_each(years, files, log, rows) ==
    IF Len(years) = 0
    THEN Result("ok", files, log, rows)
    ELSE Bind(get_df(Head(years), files, log), LAMBDA r :
            IF r.exc # "ok"
            THEN Result(r.exc, r.files, r.log, <<>>)
            ELSE get_df_each(Tail(years), r.files, r.log, rows \o r.val))

\* get_dfs: pd.concat raises ValueError on an empty list of frames.
get_dfs(years, files, log) ==
    IF Len(years) = 0
    THEN Result("ValueError", files, log, <<>>)
    ELSE get_df_each(years, files, log, <<>>)

\* range(a, b) as a list.
Range(a, b) == [i \in 1..(IF b > a THEN b - a ELSE 0) |-> a + i - 1]

\* pd.read_csv(CSV_PATH, index_col=0, converters={0: pd.to_datetime})
read_csv == IF csv.readable THEN Ok(csv.rows) ELSE Raise("ParserError")

\* max(df0.index).year; max() of an empty index raises ValueError.
MaxIndexYear(rows) ==
    IF Len(rows) = 0
    THEN Raise("ValueError")
    ELSE Ok(CHOOSE y \in {rows[i].date.year : i \in DOMAIN rows} :
                \A i \in DOMAIN rows : rows[i].date.year <= y)

\* drop_duplicates with keep="first": a row stays when no earlier row has its
\* date.
drop_duplicates_keep_first(rows) ==
    LET keep == {i \in DOMAIN rows :
                    \A j \in DOMAIN rows : j < i => rows[j].date # rows[i].date}
        nth(k) == CHOOSE i \in keep : Cardinality({j \in keep : j <= i}) = k
    IN  [k \in 1..Cardinality(keep) |-> rows[nth(k)]]

\* drop_duplicates without subset="date": only a row equal in every column
\* to a later one goes.
drop_duplicates_whole_row(rows) ==
    LET keep == {i \in DOMAIN rows :
                    \A j \in DOMAIN rows : j > i => rows[j] # rows[i]}
        nth(k) == CHOOSE i \in keep : Cardinality({j \in keep : j <= i}) = k
    IN  [k \in 1..Cardinality(keep) |-> rows[nth(k)]]

\* drop_duplicates(subset="date", keep="last"): a row stays when no later row
\* has its date; the rows that stay keep their order.
drop_duplicates(rows) ==
    LET keep == {i \in DOMAIN rows :
                    \A j \in DOMAIN rows : j > i => rows[j].date # rows[i].date}
        nth(k) == CHOOSE i \in keep : Cardinality({j \in keep : j <= i}) = k
    IN  [k \in 1..Cardinality(keep) |-> rows[nth(k)]]

\* The merge without drop_duplicates.
Merge_Concat(df0, df1) == df0 \o df1

\* The merge of update_dfs: concat, reset_index, drop_duplicates, set_index.
Merge(df0, df1) == drop_duplicates(df0 \o df1)

\* update_dfs up to df.to_csv: val is the merged table.
update_dfs(files, log) ==
    Bind(read_csv, LAMBDA df0 :
        IF df0.exc # "ok" THEN Result(df0.exc, files, log, <<>>)
        ELSE Bind(MaxIndexYear(df0.val), LAMBDA last :
            IF last.exc # "ok" THEN Result(last.exc, files, log, <<>>)
            ELSE Bind(get_dfs(Range(last.val, today + 1), files, log), LAMBDA df1 :
                IF df1.exc # "ok" THEN df1
                ELSE Result("ok", df1.files, df1.log, Merge(df0.val, df1.val)))))

\* df.to_csv(CSV_PATH)
to_csv(rows) == [readable |-> TRUE, rows |-> rows]

\* get_dfs_from_scratch: the body of get_dfs over every year from the first
\* one to the current one.
get_dfs_from_scratch(files, log) ==
    get_dfs(Range(StartYear, today + 1), files, log)

----------------------------------------------------------------------------
(* The inputs: documents, bodies, tables *)

Found(text) == <<text>>

None == <<>>

\* A content entry whose twelve fields all hold the text v.
Entry(year, day, time, v) ==
    [tag |-> "content", text |-> "",
     NEW_DATE |-> Found(<<year, day, time>>),
     bc |-> [k \in BcKeySet |-> Found(v)]]

\* The other element shape: the fields sit in a properties element that is
\* not wrapped in a content element.
Properties(year, day, time, v) ==
    [Entry(year, day, time, v) EXCEPT !.tag = "properties"]

\* A run of plain text (it has no element inside).
TextNode(s) ==
    [tag |-> "text", text |-> s, NEW_DATE |-> None,
     bc |-> [k \in BcKeySet |-> None]]

RECURSIVE SeqsUpTo(_, _)
SeqsUpTo(S, n) ==
    IF n = 0 THEN {<<>>}
    ELSE LET shorter == SeqsUpTo(S, n - 1)
         IN  shorter \cup {Append(s, x) : s \in shorter, x \in S}

Texts == {"0.96", "1.5"}

\* The nodes of the documents of a year.
Nodes(year) == {Entry(year, d, 0, v) : d \in Days, v \in Texts}

ErrorPage == <<TextNode(ErrorMarker)>>

\* What the service may answer for a year: a document or the error page.
Bodies(year) == SeqsUpTo(Nodes(year), MaxEntries) \cup {ErrorPage}

AllBodies == UNION {Bodies(y) : y \in Years}

\* A row of an existing ust.csv; its values are none the service serves now.
OldRow(year, day) ==
    [date |-> [year |-> year, day |-> day],
     bc |-> [k \in BcKeySet |-> FloatValue["2.0"]]]

OldRows == {OldRow(y, 1) : y \in Years}

\* ust.csv before the first call: unreadable, or any table of old rows
\* (empty, unsorted and repeated dates included).
InitCsv ==
    {[readable |-> FALSE, rows |-> <<>>]}
        \cup {to_csv(rows) : rows \in SeqsUpTo(OldRows, MaxRows)}

\* A file cached by an earlier run, when the service served something else.
StaleFile(year) == [exists |-> TRUE, text |-> <<Entry(year, 1, 0, "2.0")>>]

\* Field texts float() rejects: the empty string and a non-number.
BadTexts == {"", "N/A"}

\* The entry e with the element of field key replaced by found.
WithField(e, key, found) == [e EXCEPT !.bc[key] = found]

\* The entry e with its NEW_DATE element replaced by found.
WithDate(e, found) == [e EXCEPT !.NEW_DATE = found]

Times == {0, 1}

\* Documents of the first year in all their shapes: entries at any time of
\* the day, entries with one field empty, not a number or absent, entries
\* whose NEW_DATE is absent or has no time part, properties entries.
RichNodes ==
    {Entry(StartYear, d, t, v) : d \in Days, t \in Times, v \in Texts}
        \cup {WithField(Entry(StartYear, 1, 0, "0.96"), k, Found(b)) :
                    k \in BcKeySet, b \in BadTexts}
        \cup {WithField(Entry(StartYear, 1, 0, "0.96"), k, None) : k \in BcKeySet}
        \cup {WithDate(Entry(StartYear, 1, 0, "0.96"), None),
              WithDate(Entry(StartYear, 1, 0, "0.96"), Found(<<StartYear, 1>>)),
              Properties(StartYear, 1, 0, "0.96")}

RichBodies == SeqsUpTo(RichNodes, MaxEntries) \cup {ErrorPage}

----------------------------------------------------------------------------
(* The state machine *)

Call(name, year, from_web) == [name |-> name, year |-> year, from_web |-> from_web]

\* The service has no feed for a year that has not begun: it answers such a
\* year with the error page.
Webs(cur) ==
    {w \in [Years -> AllBodies] :
        \A y \in Years : IF y <= cur THEN w[y] \in Bodies(y) ELSE w[y] = ErrorPage}

NoCall ==
    /\ op = Call("none", 0, FALSE)
    /\ status = "ok"
    /\ events = <<>>
    /\ content = <<>>
    /\ df = <<>>
    /\ pre = [xml |-> xml, csv |-> csv, updated |-> FALSE]

\* What every call leaves behind: its name, its outcome and the state it
\* began in (the files, and whether it follows a successful update_dfs).
Called(call, r) ==
    /\ op' = call
    /\ status' = r.exc
    /\ events' = r.log
    /\ xml' = r.files
    /\ pre' = [xml |-> xml, csv |-> csv,
               updated |-> (op.name = "update_dfs" /\ status = "ok")]

Init ==
    /\ today \in Years
    /\ web \in Webs(today)
    /\ xml \in {[y \in Years |-> NoFile], [y \in Years |-> StaleFile(y)]}
    /\ csv \in InitCsv
    /\ NoCall

\* A call of get_datapoints(year, from_web).
GetDatapoints(year, from_web) ==
    \E r \in {get_datapoints(year, from_web, xml, <<>>)} :
        /\ Called(Call("get_datapoints", year, from_web), r)
        /\ content' = r.val
        /\ df' = <<>>
        /\ UNCHANGED <<today, web, csv>>

\* A call of get_df(year).
GetDf(year) ==
    \E r \in {get_df(year, xml, <<>>)} :
        /\ Called(Call("get_df", year, FALSE), r)
        /\ content' = <<>>
        /\ df' = r.val
        /\ UNCHANGED <<today, web, csv>>

\* The file written whether or not the call raised.
Persist_Always(r) == to_csv(r.val)

\* The last statement of update_dfs, df.to_csv(CSV_PATH), is reached only
\* when nothing before it raised: the file as the call leaves it.
Persist(r) == IF r.exc = "ok" THEN to_csv(r.val) ELSE csv

\* A call of update_dfs().
UpdateDfs ==
    \E r \in {update_dfs(xml, <<>>)} :
        /\ Called(Call("update_dfs", 0, FALSE), r)
        /\ csv' = Persist(r)
        /\ content' = <<>>
        /\ df' = r.val
        /\ UNCHANGED <<today, web>>

\* A call of get_dfs_from_scratch().
GetDfsFromScratch ==
    \E r \in {get_dfs_from_scratch(xml, <<>>)} :
        /\ Called(Call("get_dfs_from_scratch", 0, FALSE), r)
        /\ content' = <<>>
        /\ df' = r.val
        /\ UNCHANGED <<today, web, csv>>

Next ==
    \/ \E year \in Years, from_web \in BOOLEAN : GetDatapoints(year, from_web)
    \/ \E year \in Years : GetDf(year)
    \/ UpdateDfs
    \/ GetDfsFromScratch

Spec == Init /\ [][Next]_vars

\* The same program on the first year's documents in all their shapes.
InitDocs ==
    /\ today = StartYear
    /\ web \in {[y \in Years |-> IF y = StartYear THEN b ELSE ErrorPage] :
                    b \in RichBodies}
    /\ xml = [y \in Years |-> NoFile]
    /\ csv = to_csv(<<OldRow(StartYear, 1)>>)
    /\ NoCall

SpecDocs == InitDocs /\ [][Next]_vars

----------------------------------------------------------------------------
(* What the properties speak of *)

IsUpdate == op.name = "update_dfs"

Succeeded == status = "ok"

\* The positions of the log at which a GET was issued for the year.
NetCalls(year) ==
    {i \in DOMAIN events : events[i].ev = "GET" /\ events[i].year = year}

\* The years whose document the last call handed to the parser.
ParsedYears == {events[i].year : i \in {j \in DOMAIN events : events[j].ev = "PARSE"}}

\* The document the last call obtained for a year it read or fetched with
\* success: a fetched document is in the cache, a read one was there.
Obtained(year) == xml[year].text

\* The table of one year's obtained document.
YearRows(year) == DataFrame(yield_datapoints_from_string(Obtained(year)).val).val

Elements(seq) == {seq[i] : i \in DOMAIN seq}

\* The rows the last call fetched and parsed, over all its years.
FetchedRows == UNION {Elements(YearRows(y)) : y \in ParsedYears}

Dates(rows) == {r.date : r \in rows}

HasRepeatedDate(seq) ==
    \E i, j \in DOMAIN seq : i < j /\ seq[i].date = seq[j].date

DateLE(a, b) == a.year < b.year \/ (a.year = b.year /\ a.day <= b.day)

\* The body holds the literal marker.
IsErrorBody(body) == \E i \in DOMAIN body : body[i] = TextNode("Error")

\* The content entries of a document.
ContentNodes(doc) == {i \in DOMAIN doc : doc[i].tag = "content"}

----------------------------------------------------------------------------
(* C1 *)

\* C1: cache-or-fetch policy of get_datapoints.  A call issues a network GET
\* exactly when from_web is true, or the year is the current year, or the
\* year had no cache file when the call began, and never more than one; a
\* past year that was cached, asked without from_web, is answered with the
\* cached text, without any GET and without touching the cache.
C1_CachePolicy ==
    op.name = "get_datapoints" =>
        LET y == op.year
            fetch == op.from_web \/ y = today \/ ~pre.xml[y].exists
        IN  /\ Cardinality(NetCalls(y)) = (IF fetch THEN 1 ELSE 0)
            /\ \A i \in DOMAIN events : events[i].year = y
            /\ ~fetch => /\ Succeeded
                         /\ content = pre.xml[y].text
                         /\ xml = pre.xml
            /\ (y = today /\ pre.xml[y].exists) => NetCalls(y) # {}

\* A past year served from a cache file whose text is not what the service
\* would have answered.
C1_Witness ==
    /\ op.name = "get_datapoints"
    /\ ~op.from_web
    /\ op.year # today
    /\ pre.xml[op.year].exists
    /\ NetCalls(op.year) = {}
    /\ content = pre.xml[op.year].text
    /\ content # web[op.year]

----------------------------------------------------------------------------
(* C2 *)

\* C2: merge correctness of update_dfs.  After a successful update, every
\* row of the merged table (returned and persisted) whose date was both in
\* the existing table and in the freshly fetched table is a freshly fetched
\* row, and such a row is there for each such date.
C2_FreshRowWins ==
    (IsUpdate /\ Succeeded) =>
        /\ df = csv.rows
        /\ \A D \in Dates(Elements(pre.csv.rows)) \cap Dates(FetchedRows) :
            /\ \E i \in DOMAIN csv.rows : csv.rows[i].date = D
            /\ \A i \in DOMAIN csv.rows :
                csv.rows[i].date = D => csv.rows[i] \in FetchedRows

\* A successful update over an existing row whose date was fetched again with
\* other values.
C2_Witness ==
    /\ IsUpdate
    /\ Succeeded
    /\ \E old \in Elements(pre.csv.rows) :
        /\ old.date \in Dates(FetchedRows)
        /\ old \notin FetchedRows
        /\ \E i \in DOMAIN csv.rows :
            csv.rows[i].date = old.date /\ csv.rows[i] # old

----------------------------------------------------------------------------
(* C3 *)

\* C3: after a successful update the merged table has at most one record
\* per date, and its dates are exactly the dates of the existing table and
\* of the fetched data.
C3_OneRecordPerDate ==
    (IsUpdate /\ Succeeded) =>
        /\ ~HasRepeatedDate(csv.rows)
        /\ Dates(Elements(csv.rows)) =
                Dates(Elements(pre.csv.rows)) \cup Dates(FetchedRows)

\* A successful update where a date is repeated inside the existing table
\* and a date is repeated inside one fetched document.
C3_Witness ==
    /\ IsUpdate
    /\ Succeeded
    /\ HasRepeatedDate(pre.csv.rows)
    /\ \E y \in ParsedYears : HasRepeatedDate(YearRows(y))

----------------------------------------------------------------------------
(* C4 *)

\* C4: after a successful update the merged table is in non-decreasing date
\* order.
C4_SortedAfterUpdate ==
    (IsUpdate /\ Succeeded) =>
        \A i, j \in DOMAIN csv.rows :
            i < j => DateLE(csv.rows[i].date, csv.rows[j].date)

----------------------------------------------------------------------------
(* C5 *)

\* C5: idempotence of update_dfs.  The service answers every year with the
\* same document and the current year is the same throughout a behaviour, so
\* an update_dfs that follows a successful update_dfs runs with no new
\* upstream data: it leaves ust.csv row for row as the first one left it.
C5_Idempotent == (IsUpdate /\ pre.updated) => csv = pre.csv

\* A second update in succession that succeeded, fetched the current year
\* again and persisted a table of several rows.
C5_Witness ==
    /\ IsUpdate
    /\ pre.updated
    /\ Succeeded
    /\ NetCalls(today) # {}
    /\ Len(csv.rows) >= 2

----------------------------------------------------------------------------
(* C6 *)

\* C6: fetch error handling.  In any call, a GET answered with a body that
\* holds the marker "Error" is the last thing the call does: the call ends
\* with the error, the body is not written to the cache (the year's file is
\* as it was), the year is not fetched again, no later year is fetched or
\* parsed, and ust.csv is not written.
C6_FetchError ==
    \A i \in DOMAIN events :
        (events[i].ev = "GET" /\ IsErrorBody(web[events[i].year])) =>
            /\ status = "ValueError"
            /\ i = Len(events)
            /\ NetCalls(events[i].year) = {i}
            /\ xml[events[i].year] = pre.xml[events[i].year]
            /\ csv = pre.csv
            /\ df = <<>>

\* An update over two years whose first year is answered with the error
\* page: the second year is never fetched.
C6_Witness ==
    /\ IsUpdate
    /\ today > StartYear
    /\ events = <<Event("GET", StartYear)>>
    /\ IsErrorBody(web[StartYear])
    /\ ~IsErrorBody(web[today])
    /\ status = "ValueError"

----------------------------------------------------------------------------
(* C7 *)

\* The number as_float is to give for the element of a field: the value of
\* its text when it is a number, 0 when it is not or when there is no element.
Coerced(found) ==
    IF found # None /\ found[1] \in DOMAIN FloatValue
    THEN FloatValue[found[1]]
    ELSE 0

\* C7: numeric coercion.  When get_df parses a document with at least one
\* entry, all with a well-formed date, no error is raised whatever the field
\* values are, and every record holds all twelve fields, a field whose value
\* is empty, not a number or missing being 0.
C7_CoercionToZero ==
    LET doc == Obtained(op.year)
        entries == FindAllContent(doc)
    IN  (/\ op.name = "get_df"
         /\ ParsedYears = {op.year}
         /\ Len(entries) > 0
         /\ \A i \in DOMAIN entries :
                entries[i].NEW_DATE # None /\ Len(entries[i].NEW_DATE[1]) = 3)
        => /\ Succeeded
           /\ Len(df) = Len(entries)
           /\ \A i \in DOMAIN df :
                /\ DOMAIN df[i].bc = BcKeySet
                /\ \A k \in BcKeySet : df[i].bc[k] = Coerced(entries[i].bc[k])

----------------------------------------------------------------------------
(* C8 *)

\* C8: unsupported document shape.  In any call, parsing a document that
\* holds no content entry is the last thing the call does: the call ends
\* with an error, returns no table and does not write ust.csv.
C8_UnsupportedShapeFails ==
    \A i \in DOMAIN events :
        (events[i].ev = "PARSE" /\ ContentNodes(Obtained(events[i].year)) = {}) =>
            /\ ~Succeeded
            /\ i = Len(events)
            /\ df = <<>>
            /\ csv = pre.csv

\* An update that fetched a document made of properties entries only.
C8_Witness ==
    /\ IsUpdate
    /\ status = "KeyError"
    /\ Len(Obtained(today)) > 0
    /\ \A i \in DOMAIN Obtained(today) : Obtained(today)[i].tag = "properties"
    /\ events[Len(events)] = Event("PARSE", today)
    /\ csv = pre.csv

----------------------------------------------------------------------------
(* C9 *)

\* The calendar day of an entry with a well-formed NEW_DATE.
DayOf(entry) == <<entry.NEW_DATE[1][1], entry.NEW_DATE[1][2]>>

\* C9: when get_df succeeds, its table has one record per distinct date of
\* the document and no date twice.
C9_OneRecordPerDocumentDate ==
    (op.name = "get_df" /\ Succeeded) =>
        LET entries == FindAllContent(Obtained(op.year))
        IN  /\ ~HasRepeatedDate(df)
            /\ Len(df) = Cardinality({DayOf(entries[i]) : i \in DOMAIN entries})

----------------------------------------------------------------------------
(* C10 *)

\* C10: ust.csv is replaced only by a successful update: an update_dfs that
\* ends with an error, wherever it is raised, leaves the file as it was.
C10_FailedUpdateKeepsCsv == (IsUpdate /\ ~Succeeded) => csv = pre.csv

\* An update that failed on a later year after the cache file of an earlier
\* year had been rewritten.
C10_Witness ==
    /\ IsUpdate
    /\ ~Succeeded
    /\ csv = pre.csv
    /\ \E y \in Years :
        /\ y < today
        /\ xml[y] # pre.xml[y]
        /\ Event("SAVE", y) \in Elements(events)

====
